---- MODULE Spec2Model ----
(***************************************************************************)
(* Model of pkg/othell/othell.go: the package-level project id resolved by *)
(* init(), the constructor New with its three initialisation phases and    *)
(* the process-wide defaults they install, and the slog handler            *)
(* spanContextLogHandler with the ReplaceAttr function replacer.           *)
(***************************************************************************)
EXTENDS Integers, Sequences, FiniteSets, TLC

\* ------------------------------------------------------------------ bounds
MaxCalls == 2
MaxOpts == 2

\* ------------------------------------------------------------- basic values
\* A nil pointer or nil interface value.
Nil == [kind |-> "nil"]
\* A nil error.
NilErr == "<nil>"

ErrResourceRequired == "resource is required. Use WithResoure()"
ErrSpanExporter == "autoexport.NewSpanExporter failed"
ErrConsoleExporter == "failed to create console exporter: stdouttrace.New failed"
ErrMetricReader == "autoexport.NewMetricReader failed"

Names == {"svc", "api"}

\* The value a *resource.Resource points to.
Res1 == [kind |-> "Resource", service |-> "checkout"]

\* ----------------------------------------------------------------- options
WithCollectorEndpoint(endpoint) == [op |-> "WithCollectorEndpoint", arg |-> [kind |-> "string", s |-> endpoint]]
WithResource(res) == [op |-> "WithResource", arg |-> res]
WithDebugTracer == [op |-> "WithDebugTracer", arg |-> Nil]

Options == {WithResource(Res1), WithResource(Nil), WithDebugTracer, WithCollectorEndpoint("collector:4317")}

OptLists == UNION {[1..n -> Options] : n \in 0..MaxOpts}

\* The zero value of the Othell struct.
Othell == [CollectorEndpoint |-> "", TraceProvider |-> Nil, MeterProvider |-> Nil, Tracer |-> Nil, Meter |-> Nil, Resource |-> Nil, DebugTracer |-> FALSE]

\* One option applied to the struct.
ApplyOpt(o, opt) ==
  IF opt.op = "WithCollectorEndpoint" THEN [o EXCEPT !.CollectorEndpoint = opt.arg.s]
  ELSE IF opt.op = "WithResource" THEN [o EXCEPT !.Resource = opt.arg]
  ELSE [o EXCEPT !.DebugTracer = TRUE]

\* The loop of New over its options, in order.
RECURSIVE ApplyOpts(_, _)
ApplyOpts(o, os) ==
  IF os = <<>> THEN o ELSE ApplyOpts(ApplyOpt(o, Head(os)), Tail(os))

\* --------------------------------------------------------------- variables
VARIABLES
  platform,        \* what the metadata package would answer in this process
  projectID,       \* the package variable projectID
  metadataQueries, \* calls made to the metadata package so far
  pc,              \* position of the program: package load, idle, or inside New
  calls,           \* number of calls of New begun so far
  name,            \* argument name of the current (or most recent) call of New
  o,               \* the struct o of the current (or most recent) call of New
  returned,        \* the (handle, error) pairs returned by New, in call order
  gPropagator,     \* otel's process-wide text-map propagator
  gTracerProvider, \* otel's process-wide tracer provider
  gMeterProvider,  \* otel's process-wide meter provider
  slogDefault,     \* the handler of slog's default logger
  lastLog          \* the most recent record logged through slog's default logger

globals == <<gPropagator, gTracerProvider, gMeterProvider, slogDefault>>
frame == <<pc, calls, name, o, returned>>
vars == <<platform, projectID, metadataQueries, pc, calls, name, o, returned, gPropagator, gTracerProvider, gMeterProvider, slogDefault, lastLog>>

\* ---------------------------------------------------------- project id
PlatformProject == "my-project"
Platforms == [OnGCE : BOOLEAN, QueryOK : BOOLEAN]

\* The metadata calls getProjectID makes: OnGCE, and ProjectIDWithContext when on GCE.
getProjectIDQueries == IF platform.OnGCE THEN 2 ELSE 1

\* getProjectID with the query's error ignored: the empty id is returned.
getProjectIDIgnoresError ==
  IF platform.OnGCE THEN (IF platform.QueryOK THEN PlatformProject ELSE "") ELSE "non-gcp"

getProjectID ==
  IF platform.OnGCE /\ platform.QueryOK THEN PlatformProject ELSE "non-gcp"

\* The package's init function; Go runs it before main.
PackageInit ==
  /\ pc = "load"
  /\ projectID' = getProjectID
  /\ metadataQueries' = metadataQueries + getProjectIDQueries
  /\ pc' = "idle"
  /\ UNCHANGED <<platform, calls, name, o, returned, globals, lastLog>>

Init ==
  /\ platform \in Platforms
  /\ projectID = ""
  /\ metadataQueries = 0
  /\ pc = "load"
  /\ calls = 0
  /\ name = ""
  /\ o = Nil
  /\ returned = <<>>
  /\ gPropagator = [kind |-> "TextMapPropagator", id |-> 0, formats |-> {}]
  /\ gTracerProvider = [kind |-> "TracerProvider", id |-> 0, sampler |-> "default", processors |-> <<>>, resource |-> Nil]
  /\ gMeterProvider = [kind |-> "MeterProvider", id |-> 0, reader |-> Nil, resource |-> Nil]
  /\ slogDefault = [kind |-> "defaultHandler", id |-> 0]
  /\ lastLog = [kind |-> "none"]

\* ---------------------------------------------------------------- New
\* A return statement of New: the pair handed to the caller.
Return(handle, err) ==
  /\ returned' = Append(returned, [o |-> handle, err |-> err])
  /\ pc' = "idle"

\* New without the resource check.
NewBeginNoResourceCheck(n, os) ==
  /\ pc = "idle"
  /\ calls < MaxCalls
  /\ calls' = calls + 1
  /\ name' = n
  /\ o' = ApplyOpts(Othell, os)
  /\ pc' = "setPropagator"
  /\ returned' = returned
  /\ UNCHANGED <<platform, projectID, metadataQueries, globals, lastLog>>

\* New, from its entry to the resource check: the struct is built, the options are
\* applied in order, and a nil Resource returns (nil, error).
NewBegin(n, os) ==
  /\ pc = "idle"
  /\ calls < MaxCalls
  /\ calls' = calls + 1
  /\ name' = n
  /\ o' = ApplyOpts(Othell, os)
  /\ IF o'.Resource = Nil
       THEN Return(Nil, ErrResourceRequired)
       ELSE pc' = "setPropagator" /\ returned' = returned
  /\ UNCHANGED <<platform, projectID, metadataQueries, globals, lastLog>>

\* autoprop.NewTextMapPropagator(): a new composite propagator.
NewTextMapPropagator(id) ==
  [kind |-> "TextMapPropagator", id |-> id, formats |-> {"tracecontext", "baggage"}]

\* initTracer without its first statement.
SetPropagatorSkipped ==
  /\ pc = "setPropagator"
  /\ pc' = "spanExporter"
  /\ UNCHANGED <<platform, projectID, metadataQueries, calls, name, o, returned, globals, lastLog>>

\* initTracer, its first statement: the process-wide propagator is set.
SetPropagator ==
  /\ pc = "setPropagator"
  /\ gPropagator' = NewTextMapPropagator(calls)
  /\ pc' = "spanExporter"
  /\ UNCHANGED <<platform, projectID, metadataQueries, calls, name, o, returned, gTracerProvider, gMeterProvider, slogDefault, lastLog>>

\* initTracer, the construction of the auto-detected span exporter; ok is whether
\* autoexport.NewSpanExporter succeeds. On failure New returns (o, err).
NewSpanExporter(ok) ==
  /\ pc = "spanExporter"
  /\ IF ok
       THEN pc' = "traceProvider" /\ returned' = returned
       ELSE Return(o, ErrSpanExporter)
  /\ UNCHANGED <<platform, projectID, metadataQueries, calls, name, o, globals, lastLog>>

BatchSpanProcessor == [kind |-> "BatchSpanProcessor", exporter |-> "autoexport"]
SimpleSpanProcessor == [kind |-> "SimpleSpanProcessor", exporter |-> "stdouttrace"]

\* The provider with the console processor in place of the batching one.
NewTracerProviderDebugReplaces(id, resource, debug) ==
  [kind |-> "TracerProvider", id |-> id, sampler |-> "AlwaysSample",
   processors |-> IF debug THEN <<SimpleSpanProcessor>> ELSE <<BatchSpanProcessor>>,
   resource |-> resource]

\* sdktrace.NewTracerProvider over the options initTracer collects.
NewTracerProvider(id, resource, debug) ==
  [kind |-> "TracerProvider", id |-> id, sampler |-> "AlwaysSample",
   processors |-> <<BatchSpanProcessor>> \o (IF debug THEN <<SimpleSpanProcessor>> ELSE <<>>),
   resource |-> resource]

\* initTracer registering its provider only while no provider was registered before.
BuildTracerProviderFirstWins(consoleOK) ==
  /\ pc = "traceProvider"
  /\ IF o.DebugTracer /\ ~consoleOK
       THEN /\ Return(o, ErrConsoleExporter)
            /\ UNCHANGED <<o, gTracerProvider>>
       ELSE /\ o' = [o EXCEPT !.TraceProvider = [kind |-> "TracerProvider", id |-> calls, sampler |-> "AlwaysSample",
                        processors |-> <<BatchSpanProcessor>> \o (IF o.DebugTracer THEN <<SimpleSpanProcessor>> ELSE <<>>),
                        resource |-> o.Resource]]
            /\ gTracerProvider' = IF gTracerProvider.id = 0 THEN o'.TraceProvider ELSE gTracerProvider
            /\ pc' = "initMeter"
            /\ returned' = returned
  /\ UNCHANGED <<platform, projectID, metadataQueries, calls, name, gPropagator, gMeterProvider, slogDefault, lastLog>>

\* initTracer, from the provider options to its return; consoleOK is whether
\* stdouttrace.New succeeds (it is called only when DebugTracer is set).
BuildTracerProvider(consoleOK) ==
  /\ pc = "traceProvider"
  /\ IF o.DebugTracer /\ ~consoleOK
       THEN /\ Return(o, ErrConsoleExporter)
            /\ UNCHANGED <<o, gTracerProvider>>
       ELSE /\ o' = [o EXCEPT !.TraceProvider = NewTracerProvider(calls, o.Resource, o.DebugTracer)]
            /\ gTracerProvider' = o'.TraceProvider
            /\ pc' = "initMeter"
            /\ returned' = returned
  /\ UNCHANGED <<platform, projectID, metadataQueries, calls, name, gPropagator, gMeterProvider, slogDefault, lastLog>>

\* sdkmetric.NewMeterProvider with the auto-detected reader and the resource.
NewMeterProvider(id, resource) ==
  [kind |-> "MeterProvider", id |-> id, reader |-> "autoexport", resource |-> resource]

\* initMeter building and registering its provider before the reader's error is checked.
InitMeterRegistersBeforeCheck(ok) ==
  /\ pc = "initMeter"
  /\ gMeterProvider' = [kind |-> "MeterProvider", id |-> calls, reader |-> "autoexport", resource |-> o.Resource]
  /\ IF ok
       THEN /\ o' = [o EXCEPT !.MeterProvider = gMeterProvider']
            /\ pc' = "initLogging"
            /\ returned' = returned
       ELSE /\ Return(o, ErrMetricReader)
            /\ o' = o
  /\ UNCHANGED <<platform, projectID, metadataQueries, calls, name, gPropagator, gTracerProvider, slogDefault, lastLog>>

\* initMeter; ok is whether autoexport.NewMetricReader succeeds.
InitMeter(ok) ==
  /\ pc = "initMeter"
  /\ IF ok
       THEN /\ o' = [o EXCEPT !.MeterProvider = NewMeterProvider(calls, o.Resource)]
            /\ gMeterProvider' = o'.MeterProvider
            /\ pc' = "initLogging"
            /\ returned' = returned
       ELSE /\ Return(o, ErrMetricReader)
            /\ UNCHANGED <<o, gMeterProvider>>
  /\ UNCHANGED <<platform, projectID, metadataQueries, calls, name, gPropagator, gTracerProvider, slogDefault, lastLog>>

\* slog.NewJSONHandler(os.Stdout, &slog.HandlerOptions{ReplaceAttr: replacer}).
NewJSONHandler(id) ==
  [kind |-> "JSONHandler", id |-> id, w |-> "os.Stdout", ReplaceAttr |-> "replacer"]

handlerWithSpanContext(handler) ==
  [kind |-> "spanContextLogHandler", id |-> handler.id, Handler |-> handler]

\* initLogging wrapping the handler of the current default logger.
InitLoggingWrapsPrevious ==
  /\ pc = "initLogging"
  /\ slogDefault' = [kind |-> "spanContextLogHandler", id |-> calls, Handler |-> slogDefault]
  /\ pc' = "handles"
  /\ UNCHANGED <<platform, projectID, metadataQueries, calls, name, o, returned, gPropagator, gTracerProvider, gMeterProvider, lastLog>>

\* initLogging: it always returns nil.
InitLogging ==
  /\ pc = "initLogging"
  /\ slogDefault' = handlerWithSpanContext(NewJSONHandler(calls))
  /\ pc' = "handles"
  /\ UNCHANGED <<platform, projectID, metadataQueries, calls, name, o, returned, gPropagator, gTracerProvider, gMeterProvider, lastLog>>

\* otel.Meter(n) and otel.Tracer(n): a handle of the given name from the current
\* process-wide provider.
otelMeter(n) == [kind |-> "Meter", provider |-> gMeterProvider.id, name |-> n]
otelTracer(n) == [kind |-> "Tracer", provider |-> gTracerProvider.id, name |-> n]

\* New naming its handles by the bare name.
NewFinishBareName ==
  /\ pc = "handles"
  /\ o' = [o EXCEPT !.Meter = otelMeter(name), !.Tracer = otelTracer(name)]
  /\ Return(o', NilErr)
  /\ UNCHANGED <<platform, projectID, metadataQueries, calls, name, globals, lastLog>>

\* New, its last three statements.
NewFinish ==
  /\ pc = "handles"
  /\ o' = [o EXCEPT !.Meter = otelMeter(name \o "-meter"), !.Tracer = otelTracer(name \o "-tracer")]
  /\ Return(o', NilErr)
  /\ UNCHANGED <<platform, projectID, metadataQueries, calls, name, globals, lastLog>>

\* ---------------------------------------------------------------- slog
\* slog's built-in keys.
TimeKey == "time"
LevelKey == "level"
MessageKey == "msg"

\* slog.Level values, by their names.
LevelInfo == "INFO"
LevelWarn == "WARN"
LevelError == "ERROR"
Levels == {LevelInfo, LevelWarn, LevelError}

\* slog.Value, by kind: what Value.Any() returns has the dynamic type of the kind.
StringValue(s) == [kind |-> "String", v |-> s]
LevelValue(l) == [kind |-> "Level", v |-> l]
TimeValue(t) == [kind |-> "Time", v |-> t]
BoolValue(b) == [kind |-> "Bool", v |-> IF b THEN "true" ELSE "false"]
SpanIDValue(s) == [kind |-> "SpanID", v |-> s]
Attr(k, v) == [Key |-> k, Value |-> v]

\* The attributes a caller may attach to a record.
UserAttrs == {Attr("user", StringValue("alice")), Attr(LevelKey, StringValue("high")), Attr(LevelKey, LevelValue(LevelWarn))}
\* A record carries no attribute of the caller's, or one.
AttrLists == {<<>>} \cup {<<a>> : a \in UserAttrs}

\* slog.Record.
Records == [Time : {"2024-01-01T00:00:00Z"}, Level : Levels, Message : {"hello"}, attrs : AttrLists]

\* trace.SpanContext: zero ids are the ids of a context without a span.
ZeroTraceID == "00000000000000000000000000000000"
TraceID1 == "4bf92f3577b34da6a3ce929d0e0e4736"
ZeroSpanID == "0000000000000000"
SpanID1 == "00f067aa0ba902b7"
SpanContext(t, s, sampled) == [TraceID |-> t, SpanID |-> s, Sampled |-> sampled]
SpanContexts == {SpanContext(ZeroTraceID, ZeroSpanID, FALSE), SpanContext(TraceID1, ZeroSpanID, TRUE),
                 SpanContext(ZeroTraceID, SpanID1, TRUE), SpanContext(TraceID1, SpanID1, TRUE),
                 SpanContext(TraceID1, SpanID1, FALSE)}

\* IsValid looking at the trace id alone.
IsValidTraceOnly(s) == s.TraceID # ZeroTraceID

\* SpanContext.IsValid: both ids are non-zero.
IsValid(s) == s.TraceID # ZeroTraceID /\ s.SpanID # ZeroSpanID

\* Record.AddAttrs.
AddAttrs(record, attrs) == [record EXCEPT !.attrs = @ \o attrs]

\* spanContextLogHandler.Handle up to the delegation: the record it hands to the
\* wrapped handler.
Handle(ctx, record) ==
  IF IsValid(ctx)
    THEN AddAttrs(AddAttrs(AddAttrs(record,
           <<Attr("logging.googleapis.com/trace", StringValue("projects/" \o projectID \o "/traces/" \o ctx.TraceID))>>),
           <<Attr("logging.googleapis.com/spanId", SpanIDValue(ctx.SpanID))>>),
           <<Attr("logging.googleapis.com/trace_sampled", BoolValue(ctx.Sampled))>>)
    ELSE record

\* The result of a call of replacer that panics: the type assertion
\* a.Value.Any().(slog.Level) on a value that holds no slog.Level.
Panic == Attr("panic", StringValue("interface conversion: interface {} is not slog.Level"))

replacer(groups, a) ==
  IF a.Key = LevelKey
    THEN IF a.Value.kind # "Level" THEN Panic
         ELSE IF a.Value.v = LevelWarn THEN Attr("severity", StringValue("WARNING"))
         ELSE Attr("severity", a.Value)
  ELSE IF a.Key = TimeKey THEN Attr("timestamp", a.Value)
  ELSE IF a.Key = MessageKey THEN Attr("message", a.Value)
  ELSE a

\* The attributes a handler emits for a record: the built-in ones, then the record's.
RecordAttrs(record) ==
  <<Attr(TimeKey, TimeValue(record.Time)), Attr(LevelKey, LevelValue(record.Level)), Attr(MessageKey, StringValue(record.Message))>> \o record.attrs

\* What a terminal handler writes: the JSON handler built by initLogging passes
\* every attribute through replacer (a panic there escapes Handle); slog's initial
\* default handler has no ReplaceAttr.
Write(h, record) ==
  LET attrs == RecordAttrs(record)
      line == IF h.kind = "JSONHandler" THEN [i \in DOMAIN attrs |-> replacer(<<>>, attrs[i])] ELSE attrs
  IN  IF \E i \in DOMAIN line : line[i] = Panic
        THEN [panicked |-> TRUE, line |-> <<>>]
        ELSE [panicked |-> FALSE, line |-> line]

\* The terminal handler a record logged through h ends at, and the record it gets.
RECURSIVE Sink(_)
Sink(h) == IF h.kind = "spanContextLogHandler" THEN Sink(h.Handler) ELSE h
RECURSIVE Delivered(_, _, _)
Delivered(h, ctx, record) ==
  IF h.kind = "spanContextLogHandler" THEN Delivered(h.Handler, ctx, Handle(ctx, record)) ELSE record

\* A record logged through slog's default logger, under context ctx.
Log(ctx, record) ==
  /\ pc # "load"
  /\ lastLog' = [kind |-> "log", handler |-> slogDefault, ctx |-> ctx, record |-> record,
                 delegated |-> IF slogDefault.kind = "spanContextLogHandler" THEN Handle(ctx, record) ELSE record,
                 sink |-> Sink(slogDefault),
                 out |-> Write(Sink(slogDefault), Delivered(slogDefault, ctx, record))]
  /\ UNCHANGED <<platform, projectID, metadataQueries, frame, globals>>

\* ------------------------------------------------------------ specifications
Next ==
  \/ PackageInit
  \/ \E n \in Names, os \in OptLists : NewBegin(n, os)
  \/ SetPropagator
  \/ \E ok \in BOOLEAN : NewSpanExporter(ok)
  \/ \E consoleOK \in BOOLEAN : BuildTracerProvider(consoleOK)
  \/ \E ok \in BOOLEAN : InitMeter(ok)
  \/ InitLogging
  \/ NewFinish


Spec == Init /\ [][Next]_vars

\* The logging path: New with the option lists that decide whether logging is set
\* up, and records logged at any point after package load.
LogOptLists == {<<WithResource(Res1)>>}

NextLog ==
  \/ PackageInit
  \/ \E os \in LogOptLists : NewBegin("svc", os)
  \/ SetPropagator
  \/ \E ok \in BOOLEAN : NewSpanExporter(ok)
  \/ \E consoleOK \in BOOLEAN : BuildTracerProvider(consoleOK)
  \/ \E ok \in BOOLEAN : InitMeter(ok)
  \/ InitLogging
  \/ NewFinish
  \/ \E ctx \in SpanContexts, record \in Records : Log(ctx, record)

SpecLog == Init /\ [][NextLog]_vars

\* ------------------------------------------------------------------ claims
\* The pair returned by the most recent completed call of New.
LastRet == returned[Len(returned)]
\* No call of New is in progress and at least one has returned.
Returned == pc = "idle" /\ calls > 0
\* An object (provider, propagator, handler) built by the call numbered k carries id k;
\* id 0 is what the process starts with. Only New changes the process-wide defaults,
\* so a default whose id is not k was not changed by call k.
ExporterErrors == {ErrSpanExporter, ErrConsoleExporter, ErrMetricReader}

\* C1: a call of New whose struct has a nil Resource once the options are applied
\* returns a non-nil error in that very step, builds no tracer provider and no meter
\* provider, and leaves propagator, tracer provider, meter provider and default
\* logger as they were.
C1_NoResourceNoProviders ==
  [][(pc = "idle" /\ calls' = calls + 1 /\ o'.Resource = Nil) =>
       /\ pc' = "idle"
       /\ Len(returned') = Len(returned) + 1
       /\ returned'[Len(returned')].err # NilErr
       /\ o'.TraceProvider = Nil
       /\ o'.MeterProvider = Nil
       /\ UNCHANGED globals]_vars

\* A second call without a resource has returned after a first call succeeded.
C1_Witness ==
  /\ Returned
  /\ calls = 2
  /\ o.Resource = Nil
  /\ returned[1].err = NilErr
  /\ returned[2].err = ErrResourceRequired
  /\ gTracerProvider.id = 1

\* C2: when New returns the metric reader's error, the tracer provider built by this
\* call is the process-wide one, the meter provider and the default logger are not
\* ones built by this call, and the handle's Tracer and Meter are unset.
C2_MeterFailureKeepsTracer ==
  (Returned /\ LastRet.err = ErrMetricReader) =>
    /\ LastRet.o.TraceProvider # Nil
    /\ gTracerProvider = LastRet.o.TraceProvider
    /\ gTracerProvider.id = calls
    /\ gMeterProvider.id # calls
    /\ slogDefault.id # calls
    /\ LastRet.o.MeterProvider = Nil
    /\ LastRet.o.Tracer = Nil
    /\ LastRet.o.Meter = Nil

\* A second call failed at the metric reader after a first call succeeded.
C2_Witness ==
  /\ Returned
  /\ calls = 2
  /\ returned[1].err = NilErr
  /\ returned[2].err = ErrMetricReader
  /\ gTracerProvider.id = 2
  /\ gMeterProvider.id = 1

\* C3: a call of New with a resource fails only with an exporter or reader error;
\* when it returns a nil error the handle's tracer is named name-tracer and its
\* meter name-meter, each obtained from the process-wide provider this call
\* registered.
C3_HandleNames ==
  (Returned /\ o.Resource # Nil) =>
    /\ LastRet.err \in {NilErr} \cup ExporterErrors
    /\ LastRet.err = NilErr =>
         /\ LastRet.o.Tracer = [kind |-> "Tracer", provider |-> calls, name |-> name \o "-tracer"]
         /\ LastRet.o.Meter = [kind |-> "Meter", provider |-> calls, name |-> name \o "-meter"]
         /\ gTracerProvider = LastRet.o.TraceProvider /\ gTracerProvider.id = calls
         /\ gMeterProvider = LastRet.o.MeterProvider /\ gMeterProvider.id = calls

\* A call named api has succeeded.
C3_Witness ==
  /\ Returned
  /\ name = "api"
  /\ LastRet.err = NilErr
  /\ LastRet.o.Tracer.name = "api-tracer"

\* The processors of a provider that are of the given kind.
ProcessorsOf(tp, kind) == {i \in DOMAIN tp.processors : tp.processors[i].kind = kind}

\* What C6 says of the tracer provider of a struct x, if x has one.
TraceProviderAsClaimed(x) ==
  x.TraceProvider # Nil =>
    /\ x.TraceProvider.sampler = "AlwaysSample"
    /\ x.TraceProvider.resource = x.Resource
    /\ Cardinality(ProcessorsOf(x.TraceProvider, "BatchSpanProcessor")) = 1
    /\ \A i \in ProcessorsOf(x.TraceProvider, "BatchSpanProcessor") : x.TraceProvider.processors[i].exporter = "autoexport"
    /\ Cardinality(ProcessorsOf(x.TraceProvider, "SimpleSpanProcessor")) = (IF x.DebugTracer THEN 1 ELSE 0)
    /\ \A i \in ProcessorsOf(x.TraceProvider, "SimpleSpanProcessor") : x.TraceProvider.processors[i].exporter = "stdouttrace"
    /\ Len(x.TraceProvider.processors) = (IF x.DebugTracer THEN 2 ELSE 1)

\* C6: every tracer provider built has the always-sample policy, the struct's
\* resource, exactly one batching processor on the auto-detected exporter, and a
\* simple processor on the console exporter exactly when DebugTracer is set; once
\* initTracer has succeeded the provider is built and registered; a call that
\* returns the console exporter's error has built and registered none.
C6_TracerProviderComposition ==
  /\ o # Nil => TraceProviderAsClaimed(o)
  /\ \A i \in DOMAIN returned : returned[i].o # Nil => TraceProviderAsClaimed(returned[i].o)
  /\ pc \in {"initMeter", "initLogging", "handles"} =>
       (o.TraceProvider # Nil /\ gTracerProvider = o.TraceProvider)
  /\ (Returned /\ LastRet.err = ErrConsoleExporter) =>
       (LastRet.o.DebugTracer /\ LastRet.o.TraceProvider = Nil /\ gTracerProvider.id # calls)

\* A call with the debug flag has succeeded: its provider has both processors.
C6_Witness ==
  /\ Returned
  /\ LastRet.err = NilErr
  /\ LastRet.o.DebugTracer
  /\ Len(gTracerProvider.processors) = 2
  /\ gTracerProvider.processors[1].kind = "BatchSpanProcessor"

\* C8: after a successful call the four process-wide defaults are the ones that
\* call built; no call returns an error other than the missing resource or an
\* exporter error; the handle of every successful call, earlier ones included,
\* holds the providers that call built and handles obtained from them.
C8_LastCallWins ==
  /\ (Returned /\ LastRet.err = NilErr) =>
       /\ gPropagator.id = calls
       /\ gTracerProvider.id = calls
       /\ gMeterProvider.id = calls
       /\ slogDefault.id = calls
  /\ \A i \in DOMAIN returned :
       /\ returned[i].err \in {NilErr, ErrResourceRequired} \cup ExporterErrors
       /\ returned[i].err = NilErr =>
            /\ returned[i].o.TraceProvider.id = i
            /\ returned[i].o.MeterProvider.id = i
            /\ returned[i].o.Tracer.provider = i
            /\ returned[i].o.Meter.provider = i

\* Two calls have succeeded one after the other.
C8_Witness ==
  /\ Returned
  /\ calls = 2
  /\ returned[1].err = NilErr
  /\ returned[2].err = NilErr
  /\ returned[1].o.TraceProvider.id = 1
  /\ gTracerProvider.id = 2

\* C10, as stated: while the trace exporter is under construction and until the
\* tracer provider is registered the propagator is not yet this call's, and a call
\* that returns the trace exporter's or the console exporter's error has changed
\* none of the four process-wide defaults.
C10_PropagatorAfterExporter ==
  /\ pc \in {"spanExporter", "traceProvider"} => gPropagator.id # calls
  /\ (Returned /\ LastRet.err \in {ErrSpanExporter, ErrConsoleExporter}) =>
       /\ gPropagator.id # calls
       /\ gTracerProvider.id # calls
       /\ gMeterProvider.id # calls
       /\ slogDefault.id # calls

\* C10, amended: the propagator is installed first, before the trace exporter is
\* constructed and before the tracer provider is registered; a call that returns
\* the trace exporter's or the console exporter's error has replaced the
\* propagator and changed none of tracer provider, meter provider, default logger.
C10_PropagatorFirst ==
  /\ pc \in {"spanExporter", "traceProvider", "initMeter", "initLogging", "handles"} => gPropagator.id = calls
  /\ pc \in {"spanExporter", "traceProvider"} => gTracerProvider.id # calls
  /\ (Returned /\ LastRet.err \in {ErrSpanExporter, ErrConsoleExporter}) =>
       /\ gPropagator.id = calls
       /\ gTracerProvider.id # calls
       /\ gMeterProvider.id # calls
       /\ slogDefault.id # calls

\* A second call failed at the trace exporter after a first call succeeded.
C10_Witness ==
  /\ Returned
  /\ calls = 2
  /\ returned[1].err = NilErr
  /\ returned[2].err = ErrSpanExporter
  /\ gPropagator.id = 2
  /\ gTracerProvider.id = 1

\* A record has been logged while the default logger's handler was the decorator.
LoggedThroughDecorator == lastLog.kind = "log" /\ lastLog.handler.kind = "spanContextLogHandler"

\* The three correlation attributes for a span context, under environment id env.
CorrelationAttrs(env, ctx) ==
  <<Attr("logging.googleapis.com/trace", StringValue("projects/" \o env \o "/traces/" \o ctx.TraceID)),
    Attr("logging.googleapis.com/spanId", SpanIDValue(ctx.SpanID)),
    Attr("logging.googleapis.com/trace_sampled", BoolValue(ctx.Sampled))>>

\* C4: the record the decorator hands to the wrapped handler is the original record
\* followed by the three correlation attributes (trace path under the resolved
\* project id, span id, sampled flag) when the context's trace id and span id are
\* both non-zero, and the original record as it was otherwise.
C4_CorrelationIffValid ==
  LoggedThroughDecorator =>
    IF lastLog.ctx.TraceID # ZeroTraceID /\ lastLog.ctx.SpanID # ZeroSpanID
      THEN lastLog.delegated = [lastLog.record EXCEPT !.attrs = @ \o CorrelationAttrs(projectID, lastLog.ctx)]
      ELSE lastLog.delegated = lastLog.record

\* A record with an attribute of its own was logged through the decorator under a
\* valid sampled span context, on the platform.
C4_Witness ==
  /\ LoggedThroughDecorator
  /\ lastLog.ctx = SpanContext(TraceID1, SpanID1, TRUE)
  /\ Len(lastLog.record.attrs) = 1
  /\ Len(lastLog.delegated.attrs) = 4
  /\ projectID = PlatformProject

\* What C5 says replacer makes of an attribute.
ReplacedAsClaimed(a) ==
  IF a.Key = LevelKey
    THEN Attr("severity", IF a.Value = LevelValue(LevelWarn) THEN StringValue("WARNING") ELSE a.Value)
  ELSE IF a.Key = TimeKey THEN Attr("timestamp", a.Value)
  ELSE IF a.Key = MessageKey THEN Attr("message", a.Value)
  ELSE a

\* C5: every attribute the JSON handler passes to replacer is emitted: one with the
\* level key under severity, with WARNING for the warning level and its value
\* unmodified otherwise, one with the time key under timestamp, one with the
\* message key under message, any other unchanged.
C5_ReplacerRenames ==
  (lastLog.kind = "log" /\ lastLog.sink.kind = "JSONHandler") =>
    LET attrs == RecordAttrs(lastLog.delegated)
    IN  /\ ~lastLog.out.panicked
        /\ Len(lastLog.out.line) = Len(attrs)
        /\ \A i \in DOMAIN attrs : lastLog.out.line[i] = ReplacedAsClaimed(attrs[i])

\* C7: New is called and records are logged only after the package's init has
\* run; from then on projectID is the platform's project id when the process is on
\* the platform and the query succeeded and non-gcp otherwise, and the metadata
\* package has been asked only by that one resolution, however many calls of New
\* and logged records followed.
C7_ProjectIDResolvedOnce ==
  /\ (calls > 0 \/ lastLog.kind = "log") => pc # "load"
  /\ pc # "load" =>
       /\ projectID = (IF platform.OnGCE /\ platform.QueryOK THEN PlatformProject ELSE "non-gcp")
       /\ metadataQueries = (IF platform.OnGCE THEN 2 ELSE 1)
       /\ projectID # ""

\* Two calls of New have returned and a record was logged under a valid span
\* context, on the platform with a failing query.
C7_Witness ==
  /\ Returned
  /\ calls = 2
  /\ LoggedThroughDecorator
  /\ IsValid(lastLog.ctx)
  /\ platform.OnGCE /\ ~platform.QueryOK
  /\ projectID = "non-gcp"

\* C9, as stated: the handler initLogging installs is the decorator wrapping the
\* handler that was the default logger's immediately before.
C9_WrapsPreviousDefault ==
  [][(pc = "initLogging" /\ pc' = "handles") =>
       (slogDefault'.kind = "spanContextLogHandler" /\ slogDefault'.Handler = slogDefault)]_vars

\* C9, amended: after a successful call the default logger's handler is the
\* decorator wrapping a JSON handler on standard output, with replacer, that this
\* call built; a record logged through a decorator is delivered to the JSON handler
\* built with it, not to a handler that was the default before.
C9_WrapsNewJSONHandler ==
  /\ (Returned /\ LastRet.err = NilErr) =>
       /\ slogDefault.kind = "spanContextLogHandler"
       /\ slogDefault.Handler.kind = "JSONHandler"
       /\ slogDefault.Handler.w = "os.Stdout"
       /\ slogDefault.Handler.ReplaceAttr = "replacer"
       /\ slogDefault.Handler.id = calls
  /\ LoggedThroughDecorator =>
       /\ lastLog.sink = lastLog.handler.Handler
       /\ lastLog.sink.kind = "JSONHandler"
       /\ lastLog.sink.id = lastLog.handler.id

\* After two successful calls a record was logged through the second decorator.
C9_Witness ==
  /\ Returned
  /\ calls = 2
  /\ returned[1].err = NilErr
  /\ returned[2].err = NilErr
  /\ LoggedThroughDecorator
  /\ lastLog.handler.id = 2
  /\ lastLog.sink.id = 2
  /\ ~lastLog.out.panicked
====
